---- MODULE Spec2Model ----
(***************************************************************************)
(* Model of the cleaning and integration stages of the soccer analytics    *)
(* pipeline: scripts/02_clean.py and scripts/03_integrate.py.               *)
(*                                                                         *)
(* Strings are sequences of one-character strings.  A table cell that can  *)
(* be missing (None / NaN / NaT) is <<>> when missing and <<v>> when it    *)
(* holds the value v.                                                      *)
(***************************************************************************)
EXTENDS Integers, Sequences, FiniteSets, TLC

----------------------------------------------------------------------------
(* Cells *)

NaN == <<>>

Some(v) == <<v>>

isna(c) == c = NaN

notna(c) == c # NaN

----------------------------------------------------------------------------
(* Characters: the classes used by str.lower, str.strip and the two        *)
(* regular expressions of standardize_team_name.                           *)

LowerLetters ==
    {"a", "b", "c", "d", "e", "f", "g", "h", "i", "j", "k", "l", "m",
     "n", "o", "p", "q", "r", "s", "t", "u", "v", "w", "x", "y", "z"}

Digits == {"0", "1", "2", "3", "4", "5", "6", "7", "8", "9"}

lower_map ==
    ("A" :> "a") @@ ("B" :> "b") @@ ("C" :> "c") @@ ("D" :> "d") @@ ("E" :> "e") @@ ("F" :> "f")
    @@ ("G" :> "g") @@ ("H" :> "h") @@ ("I" :> "i") @@ ("J" :> "j") @@ ("K" :> "k") @@ ("L" :> "l")
    @@ ("M" :> "m") @@ ("N" :> "n") @@ ("O" :> "o") @@ ("P" :> "p") @@ ("Q" :> "q") @@ ("R" :> "r")
    @@ ("S" :> "s") @@ ("T" :> "t") @@ ("U" :> "u") @@ ("V" :> "v") @@ ("W" :> "w") @@ ("X" :> "x")
    @@ ("Y" :> "y") @@ ("Z" :> "z")

Whitespace == {" ", "\t"}

\* \w of Python's re: letters, digits and the underscore
IsWordChar(c) == c \in LowerLetters \cup DOMAIN lower_map \cup Digits \cup {"_"}

IsSpaceChar(c) == c \in Whitespace

LowerChar(c) == IF c \in DOMAIN lower_map THEN lower_map[c] ELSE c

\* the name with its capitals kept
keep_case(s) == s

\* str.lower()
lower(s) == [i \in 1..Len(s) |-> LowerChar(s[i])]

RECURSIVE lstrip(_)
lstrip(s) ==
    IF s # <<>> /\ IsSpaceChar(Head(s)) THEN lstrip(Tail(s)) ELSE s

RECURSIVE rstrip(_)
rstrip(s) ==
    IF s # <<>> /\ IsSpaceChar(s[Len(s)]) THEN rstrip(SubSeq(s, 1, Len(s) - 1)) ELSE s

\* str.strip()
strip(s) == rstrip(lstrip(s))

\* re.sub(r'[^\w\s-]', '', name)
remove_special(s) ==
    SelectSeq(s, LAMBDA c : IsWordChar(c) \/ IsSpaceChar(c) \/ c = "-")

\* re.sub(r'\s+', ' ', name): every maximal run of whitespace becomes one space
RECURSIVE collapse_whitespace(_)
collapse_whitespace(s) ==
    IF s = <<>> THEN <<>>
    ELSE IF IsSpaceChar(Head(s))
         THEN <<" ">> \o collapse_whitespace(lstrip(s))
         ELSE <<Head(s)>> \o collapse_whitespace(Tail(s))

aliases ==
    (<<"m","a","n"," ","u","n","i","t","e","d">> :> <<"m","a","n","c","h","e","s","t","e","r"," ","u","n","i","t","e","d">>)
    @@ (<<"m","a","n"," ","c","i","t","y">> :> <<"m","a","n","c","h","e","s","t","e","r"," ","c","i","t","y">>)
    @@ (<<"m","a","n"," ","u","t","d">> :> <<"m","a","n","c","h","e","s","t","e","r"," ","u","n","i","t","e","d">>)
    @@ (<<"p","s","g">> :> <<"p","a","r","i","s"," ","s","a","i","n","t"," ","g","e","r","m","a","i","n">>)
    @@ (<<"p","a","r","i","s"," ","s","g">> :> <<"p","a","r","i","s"," ","s","a","i","n","t"," ","g","e","r","m","a","i","n">>)
    @@ (<<"n","e","w","c","a","s","t","l","e">> :> <<"n","e","w","c","a","s","t","l","e"," ","u","n","i","t","e","d">>)
    @@ (<<"w","e","s","t"," ","h","a","m">> :> <<"w","e","s","t"," ","h","a","m"," ","u","n","i","t","e","d">>)
    @@ (<<"w","o","l","v","e","s">> :> <<"w","o","l","v","e","r","h","a","m","p","t","o","n"," ","w","a","n","d","e","r","e","r","s">>)
    @@ (<<"t","o","t","t","e","n","h","a","m">> :> <<"t","o","t","t","e","n","h","a","m"," ","h","o","t","s","p","u","r">>)
    @@ (<<"s","p","u","r","s">> :> <<"t","o","t","t","e","n","h","a","m"," ","h","o","t","s","p","u","r">>)
    @@ (<<"b","r","i","g","h","t","o","n">> :> <<"b","r","i","g","h","t","o","n"," ","a","n","d"," ","h","o","v","e"," ","a","l","b","i","o","n">>)
    @@ (<<"n","o","t","t","m"," ","f","o","r","e","s","t">> :> <<"n","o","t","t","i","n","g","h","a","m"," ","f","o","r","e","s","t">>)
    @@ (<<"n","o","t","t","'","m"," ","f","o","r","e","s","t">> :> <<"n","o","t","t","i","n","g","h","a","m"," ","f","o","r","e","s","t">>)
    @@ (<<"n","o","t","t","s"," ","f","o","r","e","s","t">> :> <<"n","o","t","t","i","n","g","h","a","m"," ","f","o","r","e","s","t">>)
    @@ (<<"b","a","y","e","r","n">> :> <<"b","a","y","e","r","n"," ","m","u","n","i","c","h">>)
    @@ (<<"b","a","y","e","r","n"," ","m","u","n","c","h","e","n">> :> <<"b","a","y","e","r","n"," ","m","u","n","i","c","h">>)
    @@ (<<"f","c"," ","b","a","y","e","r","n">> :> <<"b","a","y","e","r","n"," ","m","u","n","i","c","h">>)
    @@ (<<"e","i","n"," ","f","r","a","n","k","f","u","r","t">> :> <<"e","i","n","t","r","a","c","h","t"," ","f","r","a","n","k","f","u","r","t">>)
    @@ (<<"f","c"," ","b","a","r","c","e","l","o","n","a">> :> <<"b","a","r","c","e","l","o","n","a">>)
    @@ (<<"b","a","r","c","a">> :> <<"b","a","r","c","e","l","o","n","a">>)
    @@ (<<"r","e","a","l">> :> <<"r","e","a","l"," ","m","a","d","r","i","d">>)
    @@ (<<"a","t","l","e","t","i","c","o">> :> <<"a","t","l","e","t","i","c","o"," ","m","a","d","r","i","d">>)
    @@ (<<"i","n","t","e","r">> :> <<"i","n","t","e","r"," ","m","i","l","a","n">>)
    @@ (<<"a","c"," ","m","i","l","a","n">> :> <<"m","i","l","a","n">>)
    @@ (<<"m","u","n","i","c","h"," ","1","8","6","0">> :> <<"1","8","6","0"," ","m","u","n","i","c","h">>)
    @@ (<<"w","e","r","d","e","r"," ","b","r","e","m","e","n">> :> <<"w","e","r","d","e","r">>)

\* The normalisation steps before the alias lookup
normalise(s) == collapse_whitespace(remove_special(strip(lower(s))))

\* standardize_team_name without the alias lookup
standardize_without_aliases(name) ==
    IF isna(name) THEN name ELSE Some(normalise(name[1]))

\* standardize_team_name(name): a missing name is returned as it is
standardize_team_name(name) ==
    IF isna(name) THEN name
    ELSE LET n == normalise(name[1])
         IN  IF n \in DOMAIN aliases THEN Some(aliases[n]) ELSE Some(n)

----------------------------------------------------------------------------
(* Bounds of the model *)

\* longest raw team name drawn for the standardizer on its own
MaxNameLen == 5

\* most rows in the raw match table
MaxRows == 2

\* largest home goal count in a raw row
MaxGoal == 1

\* last calendar year the system clock can show (the first is 2025)
MaxClockYear == 2026

\* most runs of the pipeline over the same raw table
MaxRuns == 2

----------------------------------------------------------------------------
(* Dates: pd.to_datetime(..., format='%d/%m/%y', errors='coerce'),          *)
(* pd.DateOffset(years=100), str(Timestamp)                                 *)

DigitSeq == <<"0", "1", "2", "3", "4", "5", "6", "7", "8", "9">>

DigitValue(c) == CHOOSE n \in 0..9 : DigitSeq[n + 1] = c

IsDigits(s) == \A i \in 1..Len(s) : s[i] \in Digits

RECURSIVE atoi(_)
atoi(s) == IF s = <<>> THEN 0
           ELSE 10 * atoi(SubSeq(s, 1, Len(s) - 1)) + DigitValue(s[Len(s)])

RECURSIVE itoa(_)
itoa(n) == IF n < 10 THEN <<DigitSeq[n + 1]>>
           ELSE itoa(n \div 10) \o <<DigitSeq[(n % 10) + 1]>>

\* zero-padded to two digits, as %m and %d print
itoa2(n) == IF n < 10 THEN <<"0">> \o itoa(n) ELSE itoa(n)

IsLeap(y) == (y % 4 = 0 /\ y % 100 # 0) \/ y % 400 = 0

DaysInMonth(y, m) ==
    IF m = 2 THEN (IF IsLeap(y) THEN 29 ELSE 28)
    ELSE IF m \in {4, 6, 9, 11} THEN 30 ELSE 31

\* the position of the first "/" of s, 0 when there is none
RECURSIVE find_slash(_, _)
find_slash(s, i) ==
    IF i > Len(s) THEN 0 ELSE IF s[i] = "/" THEN i ELSE find_slash(s, i + 1)

\* %y of strptime: 69..99 are 1969..1999 and 00..68 are 2000..2068
two_digit_year(yy) == IF yy >= 69 THEN 1900 + yy ELSE 2000 + yy

\* pd.to_datetime(cell, format='%d/%m/%y', errors='coerce') of one cell
to_datetime(cell) ==
    IF isna(cell) THEN NaN
    ELSE
    LET s  == cell[1]
        p1 == find_slash(s, 1)
        p2 == IF p1 = 0 THEN 0 ELSE find_slash(s, p1 + 1)
        ds == SubSeq(s, 1, p1 - 1)
        ms == SubSeq(s, p1 + 1, p2 - 1)
        ys == SubSeq(s, p2 + 1, Len(s))
    IN  IF p1 = 0 \/ p2 = 0 THEN NaN
        ELSE IF ~(IsDigits(ds) /\ IsDigits(ms) /\ IsDigits(ys)) THEN NaN
        ELSE IF ~(Len(ds) \in 1..2 /\ Len(ms) \in 1..2 /\ Len(ys) = 2) THEN NaN
        ELSE LET y == two_digit_year(atoi(ys))
                 m == atoi(ms)
                 d == atoi(ds)
             IN  IF m \in 1..12 /\ d \in 1..DaysInMonth(y, m)
                 THEN Some([year |-> y, month |-> m, day |-> d])
                 ELSE NaN

\* ts - pd.DateOffset(years=100): the day is clipped to the end of the month
minus_100_years(ts) ==
    LET y == ts.year - 100
    IN  [year |-> y, month |-> ts.month,
         day |-> IF ts.day > DaysInMonth(y, ts.month)
                 THEN DaysInMonth(y, ts.month) ELSE ts.day]

\* the century fix with >= in place of >
fix_century_from_current_year(cell, current_year) ==
    IF notna(cell) /\ cell[1].year >= current_year
    THEN Some(minus_100_years(cell[1]))
    ELSE cell

\* the century fix of clean_dataset2 on one cell
fix_century(cell, current_year) ==
    IF notna(cell) /\ cell[1].year > current_year
    THEN Some(minus_100_years(cell[1]))
    ELSE cell

\* the season label with August counted to the season that ends
season_of_august_early(cell) ==
    IF notna(cell) /\ cell[1].month <= 8
    THEN Some(itoa(cell[1].year - 1) \o <<"-">> \o itoa(cell[1].year))
    ELSE IF notna(cell)
         THEN Some(itoa(cell[1].year) \o <<"-">> \o itoa(cell[1].year + 1))
         ELSE NaN

\* the season label of clean_dataset2 on one cell.  For NaT x.month is nan,
\* nan < 8 is false, and the inner conditional gives None.
season_of(cell) ==
    IF notna(cell) /\ cell[1].month < 8
    THEN Some(itoa(cell[1].year - 1) \o <<"-">> \o itoa(cell[1].year))
    ELSE IF notna(cell)
         THEN Some(itoa(cell[1].year) \o <<"-">> \o itoa(cell[1].year + 1))
         ELSE NaN

----------------------------------------------------------------------------
(* Numeric cells of the raw table: a number, a blank, or text that is not   *)
(* a number                                                                 *)

Num(n) == [kind |-> "number", value |-> n]

Blank == [kind |-> "blank"]

Text == [kind |-> "text"]

\* the number k/2 for an odd k; such cells are drawn for the card columns only
Half(k) == [kind |-> "half", twice |-> k]

\* pd.to_numeric followed by fillna(0)
to_numeric_fillna_0(cell) == IF cell.kind = "number" THEN Some(cell.value) ELSE Some(0)

\* pd.to_numeric(cell, errors='coerce') of one cell
to_numeric(cell) == IF cell.kind = "number" THEN Some(cell.value) ELSE NaN

\* int() of a float cuts the fraction off, towards zero
truncate_half(k) == IF k >= 0 THEN k \div 2 ELSE -((-k) \div 2)

\* column.fillna(0).astype(int) of one cell of a column without text
fillna_0_astype_int(cell) ==
    IF cell.kind = "number" THEN Some(cell.value)
    ELSE IF cell.kind = "half" THEN Some(truncate_half(cell.twice))
    ELSE Some(0)

card_cols == {"HY", "AY", "HR", "AR"}

\* astype(int) raises ValueError on a card column that holds text
astype_int_raises(df) ==
    \E i \in 1..Len(df) : \E col \in card_cols : df[i][col].kind = "text"

----------------------------------------------------------------------------
(* clean_dataset2 *)

\* comparisons with NaN are false
gt(a, b) == notna(a) /\ notna(b) /\ a[1] > b[1]

\* the lambda of FTR_calculated
FTR_calculated(FTHG, FTAG) ==
    IF gt(FTHG, FTAG) THEN Some("H")
    ELSE IF gt(FTAG, FTHG) THEN Some("A") ELSE Some("D")

\* the columns of a row before the results are validated (steps 1 to 5)
clean_row(r, current_year) ==
    LET date == fix_century(to_datetime(r.Date), current_year)
    IN  [Date         |-> date,
         HomeTeam     |-> r.HomeTeam,
         AwayTeam     |-> r.AwayTeam,
         HomeTeam_std |-> standardize_team_name(r.HomeTeam),
         AwayTeam_std |-> standardize_team_name(r.AwayTeam),
         FTHG         |-> to_numeric(r.FTHG),
         FTAG         |-> to_numeric(r.FTAG),
         FTR          |-> r.FTR,
         HTHG         |-> to_numeric(r.HTHG),
         HTAG         |-> to_numeric(r.HTAG),
         HTR          |-> r.HTR,
         HS           |-> to_numeric(r.HS),
         AS           |-> to_numeric(r.AS),
         HST          |-> to_numeric(r.HST),
         AST          |-> to_numeric(r.AST),
         HF           |-> to_numeric(r.HF),
         AF           |-> to_numeric(r.AF),
         HC           |-> to_numeric(r.HC),
         AC           |-> to_numeric(r.AC),
         HY           |-> fillna_0_astype_int(r.HY),
         AY           |-> fillna_0_astype_int(r.AY),
         HR           |-> fillna_0_astype_int(r.HR),
         AR           |-> fillna_0_astype_int(r.AR),
         Referee      |-> r.Referee,
         league_name  |-> r.league_name,
         Season       |-> season_of(date)]

\* the caller's table after a call whose body works on the table itself
in_place(table, result) == result

\* the caller's table after a call whose body starts with table.copy()
on_copy(table, result) == table

\* validate_results without the overwrite of the stored results
validate_results_keeps_stored(df) == df

\* step 6: the stored results are replaced by the calculated ones, in
\* every row, when at least one row differs (NaN differs from any letter)
validate_results(df) ==
    LET calc(i) == FTR_calculated(df[i].FTHG, df[i].FTAG)
        mismatches == Cardinality({i \in 1..Len(df) : df[i].FTR # calc(i)})
    IN  IF mismatches > 0
        THEN [i \in 1..Len(df) |-> [df[i] EXCEPT !.FTR = calc(i)]]
        ELSE df

clean_dataset2(df, current_year) ==
    validate_results([i \in 1..Len(df) |-> clean_row(df[i], current_year)])

\* sorted(df2_teams) of create_team_mapping raises TypeError when the unique
\* standardized names hold NaN next to at least one string
unique_teams(df) ==
    {df[i].HomeTeam_std : i \in 1..Len(df)} \cup {df[i].AwayTeam_std : i \in 1..Len(df)}

create_team_mapping_raises(df) ==
    NaN \in unique_teams(df) /\ Cardinality(unique_teams(df)) > 1

\* the stats of step 6 of main: strftime of the earliest date raises
\* ValueError when every date is NaT; sorted() of the leagues raises
\* TypeError when NaN stands next to a name, and ', '.join of the report
\* raises TypeError when NaN is the only league
cleaning_report_raises(df) ==
    \/ \A i \in 1..Len(df) : isna(df[i].Date)
    \/ \E i \in 1..Len(df) : isna(df[i].league_name)

----------------------------------------------------------------------------
(* dataset2_clean.csv: df.to_csv followed by pd.read_csv *)

\* the strings read_csv takes for a missing value, among those a name
\* in lower case can be
na_values == {<<>>, <<"n","a","n">>, <<"n","u","l","l">>, <<"-","n","a","n">>}

read_csv_text(cell) == IF notna(cell) /\ cell[1] \in na_values THEN NaN ELSE cell

read_csv_row(r) ==
    [r EXCEPT !.HomeTeam = read_csv_text(r.HomeTeam),
              !.AwayTeam = read_csv_text(r.AwayTeam),
              !.HomeTeam_std = read_csv_text(r.HomeTeam_std),
              !.AwayTeam_std = read_csv_text(r.AwayTeam_std)]

read_csv(file) == [i \in 1..Len(file) |-> read_csv_row(file[i])]

----------------------------------------------------------------------------
(* generate_match_id *)

\* str(Timestamp) and str(NaT)
str_date(cell) ==
    IF isna(cell) THEN <<"N","a","T">>
    ELSE itoa(cell[1].year) \o <<"-">> \o itoa2(cell[1].month) \o <<"-">>
         \o itoa2(cell[1].day) \o <<" ","0","0",":","0","0",":","0","0">>

\* str of a text cell; a missing one prints as nan
str_text(cell) == IF isna(cell) THEN <<"n","a","n">> ELSE cell[1]

match_string(row) ==
    str_date(row.Date) \o <<"_">> \o str_text(row.HomeTeam_std) \o <<"_">>
    \o str_text(row.AwayTeam_std) \o <<"_">> \o str_text(row.league_name)

\* hashlib.md5(s.encode()).hexdigest()[:16]: the digest is kept as a term
\* over the digested string, so two identifiers are equal exactly when the
\* digested strings are (no collision of the 64-bit prefix)
md5_hexdigest_16(s) == [md5_of |-> s]

\* generate_match_id with the goals added to the digested string
generate_match_id_with_goals(row) ==
    md5_hexdigest_16(match_string(row) \o <<"_">>
                     \o (IF isna(row.FTHG) THEN <<"n","a","n">> ELSE itoa(row.FTHG[1])))

generate_match_id(row) == md5_hexdigest_16(match_string(row))

----------------------------------------------------------------------------
(* create_integrated_dataset *)

\* the difference taken the other way round
sub_swapped(a, b) == IF notna(a) /\ notna(b) THEN Some(b[1] - a[1]) ELSE NaN

sub(a, b) == IF notna(a) /\ notna(b) THEN Some(a[1] - b[1]) ELSE NaN

add(a, b) == IF notna(a) /\ notna(b) THEN Some(a[1] + b[1]) ELSE NaN

\* a / b of two columns: a quotient is kept as numerator and denominator; a
\* zero denominator gives inf or -inf (den = 0), and 0 / 0 gives NaN
truediv(a, b) ==
    IF isna(a) \/ isna(b) THEN NaN
    ELSE IF b[1] = 0 /\ a[1] = 0 THEN NaN
    ELSE Some([num |-> a[1], den |-> b[1]])

\* column >= 0, false for NaN
gt_0_inclusive(a) == notna(a) /\ a[1] >= 0

\* column > 0, false for NaN
gt_0(a) == notna(a) /\ a[1] > 0

\* np.where(cond, x, np.nan) of one row
np_where(cond, x) == IF cond THEN x ELSE NaN

\* the shot accuracy of one side
shot_accuracy(shots, on_target) == np_where(gt_0(shots), truediv(on_target, shots))

\* yellow + red, a red card counted once
total_cards_unweighted(yellow, red) == add(yellow, red)

\* yellow + red * 2
total_cards(yellow, red) == add(yellow, IF notna(red) THEN Some(red[1] * 2) ELSE NaN)

\* column.notna().astype(int), whatever the letter
indicator_any_letter(cell, letter) == IF notna(cell) THEN 1 ELSE 0

\* (column == letter).astype(int)
indicator(cell, letter) == IF notna(cell) /\ cell[1] = letter THEN 1 ELSE 0

integrated_row(row) ==
    [match_id           |-> generate_match_id(row),
     match_date         |-> row.Date,
     season             |-> row.Season,
     league             |-> row.league_name,
     home_team          |-> row.HomeTeam_std,
     away_team          |-> row.AwayTeam_std,
     home_team_original |-> row.HomeTeam,
     away_team_original |-> row.AwayTeam,
     home_goals         |-> row.FTHG,
     away_goals         |-> row.FTAG,
     result             |-> row.FTR,
     halftime_home_goals  |-> row.HTHG,
     halftime_away_goals  |-> row.HTAG,
     halftime_result      |-> row.HTR,
     home_shots           |-> row.HS,
     away_shots           |-> row.AS,
     home_shots_on_target |-> row.HST,
     away_shots_on_target |-> row.AST,
     home_fouls           |-> row.HF,
     away_fouls           |-> row.AF,
     home_yellow_cards    |-> row.HY,
     away_yellow_cards    |-> row.AY,
     home_red_cards       |-> row.HR,
     away_red_cards       |-> row.AR,
     home_corners         |-> row.HC,
     away_corners         |-> row.AC,
     referee              |-> row.Referee,
     goal_differential  |-> sub(row.FTHG, row.FTAG),
     home_shot_accuracy |-> shot_accuracy(row.HS, row.HST),
     away_shot_accuracy |-> shot_accuracy(row.AS, row.AST),
     shot_differential  |-> sub(row.HS, row.AS),
     home_total_cards   |-> total_cards(row.HY, row.HR),
     away_total_cards   |-> total_cards(row.AY, row.AR),
     card_differential  |-> sub(total_cards(row.HY, row.HR), total_cards(row.AY, row.AR)),
     total_goals        |-> add(row.FTHG, row.FTAG),
     home_win           |-> indicator(row.FTR, "H"),
     away_win           |-> indicator(row.FTR, "A"),
     draw               |-> indicator(row.FTR, "D")]

\* the columns of the cleaned table that create_integrated_dataset reads:
\* the four of generate_match_id and the keys of column_mapping, all of
\* them selected by final_columns
required_columns ==
    {"Date", "HomeTeam", "AwayTeam", "HomeTeam_std", "AwayTeam_std",
     "FTHG", "FTAG", "FTR", "HTHG", "HTAG", "HTR", "HS", "AS", "HST", "AST",
     "HF", "AF", "HC", "AC", "HY", "AY", "HR", "AR", "Referee",
     "league_name", "Season"}

\* the required columns a table does not have: indexing any of them
\* raises KeyError
missing_columns(table) ==
    IF table = <<>> THEN {} ELSE required_columns \ DOMAIN table[1]

\* the table without one of its columns
drop_column(table, col) ==
    [i \in 1..Len(table) |-> [f \in DOMAIN table[i] \ {col} |-> table[i][f]]]

\* a file opened for writing before the stage has built its table
truncated_on_abort(file) == <<>>

\* a file of an earlier run when the stage ends on an exception: main
\* writes only after create_integrated_dataset has returned
kept_on_abort(file) == file

\* create_integrated_dataset with an inner merge on the teams table
create_integrated_dataset_inner_merge(matches, teams) ==
    LET kept == IF isna(teams) THEN matches
                ELSE SelectSeq(matches, LAMBDA m :
                         \E k \in 1..Len(teams[1]) : teams[1][k].name_std = m.HomeTeam_std)
    IN  [i \in 1..Len(kept) |-> integrated_row(kept[i])]

\* the teams table is an argument that the function never reads
create_integrated_dataset(matches, teams) ==
    [i \in 1..Len(matches) |-> integrated_row(matches[i])]

----------------------------------------------------------------------------
(* validate_integration *)

\* the rows of the table are pairwise different
no_duplicate_rows(integrated) ==
    Cardinality({integrated[i] : i \in 1..Len(integrated)}) = Len(integrated)

\* df_integrated['match_id'].nunique() == len(df_integrated)
no_duplicate_ids(integrated) ==
    Cardinality({integrated[i].match_id : i \in 1..Len(integrated)}) = Len(integrated)

\* the five checks of the validation dictionary
integration_checks(integrated, matches) ==
    LET n == Len(integrated)
    IN  [record_count_match |-> n = Len(matches),
         no_duplicate_ids   |-> no_duplicate_ids(integrated),
         no_missing_goals   |->
             \A i \in 1..n : notna(integrated[i].home_goals)
                             /\ notna(integrated[i].away_goals),
         no_missing_dates   |-> \A i \in 1..n : notna(integrated[i].match_date),
         valid_results      |->
             \A i \in 1..n : notna(integrated[i].result)
                             /\ integrated[i].result[1] \in {"H", "A", "D"}]

\* validate_integration with all_passed taken over the first four checks
validate_integration_first_four(integrated, matches) ==
    LET checks == integration_checks(integrated, matches)
    IN  [record_count_match |-> checks.record_count_match,
         no_duplicate_ids   |-> checks.no_duplicate_ids,
         no_missing_goals   |-> checks.no_missing_goals,
         no_missing_dates   |-> checks.no_missing_dates,
         valid_results      |-> checks.valid_results,
         all_passed         |-> checks.record_count_match /\ checks.no_duplicate_ids
                                /\ checks.no_missing_goals /\ checks.no_missing_dates]

validate_integration(integrated, matches) ==
    LET checks == integration_checks(integrated, matches)
    IN  [record_count_match |-> checks.record_count_match,
         no_duplicate_ids   |-> checks.no_duplicate_ids,
         no_missing_goals   |-> checks.no_missing_goals,
         no_missing_dates   |-> checks.no_missing_dates,
         valid_results      |-> checks.valid_results,
         all_passed         |-> checks.record_count_match /\ checks.no_duplicate_ids
                                /\ checks.no_missing_goals /\ checks.no_missing_dates
                                /\ checks.valid_results]

----------------------------------------------------------------------------
(* The end of 03_integrate.py *)

\* the status line and the [PASS] / [FAIL] lines of the report
report_checks(v) ==
    [status             |-> v.all_passed,
     record_count_match |-> v.record_count_match,
     no_duplicate_ids   |-> v.no_duplicate_ids,
     no_missing_goals   |-> v.no_missing_goals,
     no_missing_dates   |-> v.no_missing_dates,
     valid_results      |-> v.valid_results]

\* exit(0 if success else 1)
exit_code_of_success(v) == IF v.all_passed THEN 0 ELSE 1

\* exit(0) whatever main returned
integration_exit_code(v) == 0

----------------------------------------------------------------------------
(* The inputs *)

\* characters of the names drawn for the standardizer on its own
InputChars == {"p", "s", "g", "P", " ", "\t", "!"}

\* the names of k characters
InputNames(k) == {Some(s) : s \in [1..k -> InputChars]}

ClockYears == 2025..MaxClockYear

RawRow(date, home, away, fthg, ftag, ftr, league) ==
    [Date |-> date, HomeTeam |-> home, AwayTeam |-> away,
     FTHG |-> fthg, FTAG |-> ftag, FTR |-> ftr, league_name |-> league,
     HTHG |-> Num(0), HTAG |-> Num(0), HTR |-> Some("D"),
     HS |-> Num(2), AS |-> Num(2), HST |-> Num(1), AST |-> Num(1),
     HF |-> Num(1), AF |-> Num(1), HC |-> Num(1), AC |-> Num(1),
     HY |-> Num(0), AY |-> Num(0), HR |-> Num(0), AR |-> Num(0),
     Referee |-> Some(<<"r">>)]

EPL == Some(<<"E","P","L">>)

TeamA == Some(<<"a">>)

TeamC == Some(<<"c">>)

\* 24 is a past year; 26 and 28 lie after the first clock year; 99 is in the
\* last century; 31/02 is no date; the last one is a blank cell
RawDates ==
    {Some(<<"0","1","/","0","8","/","2","4">>), Some(<<"1","5","/","0","5","/","2","6">>), Some(<<"2","9","/","0","2","/","2","8">>),
     Some(<<"1","5","/","0","5","/","9","9">>), Some(<<"3","1","/","0","2","/","2","4">>), NaN}

RawHomeTeams == {TeamA, Some(<<"a","_","b">>), Some(<<"!">>), NaN}

RawAwayTeams == {TeamC, Some(<<"b","_","c">>)}

RawHomeGoals == {Blank} \cup {Num(n) : n \in 0..MaxGoal}

RawAwayGoals == {Text, Num(0), Num(1)}

RawResults == {Some("H"), Some("D"), NaN}

\* a row whose home team is missing
NoHomeTeamRow ==
    RawRow(Some(<<"0","1","/","0","8","/","2","4">>),
           NaN, TeamC, Num(1), Num(0), Some("H"), EPL)

\* a row whose league is missing
NoLeagueRow ==
    RawRow(Some(<<"0","1","/","0","8","/","2","4">>),
           TeamA, TeamC, Num(1), Num(0), Some("H"), NaN)

\* a well-formed row
PlainRow ==
    RawRow(Some(<<"0","1","/","0","8","/","2","4">>),
           TeamA, TeamC, Num(1), Num(0), Some("H"), EPL)

\* a row with text in a card column
TextCardRow == [PlainRow EXCEPT !.HY = Text]

\* the rows that end the cleaning stage early
MalformedRows == {NoHomeTeamRow, NoLeagueRow, TextCardRow}

\* rows that differ in the fields the identifier is made of
IdentityRows ==
    MalformedRows
    \cup {RawRow(d, TeamA, TeamC, Num(1), Num(0), Some("H"), EPL) : d \in RawDates}
    \cup {RawRow(Some(<<"0","1","/","0","8","/","2","4">>), h, a, Num(1), Num(0), Some("H"), EPL) :
            h \in RawHomeTeams, a \in RawAwayTeams}

\* rows of one match that differ in the goals and the stored result
OutcomeRows ==
    MalformedRows \cup
    {RawRow(Some(<<"0","1","/","0","8","/","2","4">>), TeamA, TeamC, hg, ag, r, EPL) :
        hg \in RawHomeGoals, ag \in RawAwayGoals, r \in RawResults}

\* rows that differ in the date only
DateRows ==
    MalformedRows \cup
    {RawRow(d, TeamA, TeamC, Num(1), Num(0), Some("H"), EPL) : d \in RawDates}

\* shots of a side: not recorded, none, a negative entry, two
RawShots == {Blank, Num(0), Num(-1), Num(2)}

\* shots on target of a side: not recorded, one, three
RawShotsOnTarget == {Blank, Num(1), Num(3)}

\* rows that differ in the shots of one side
ShotRows ==
    MalformedRows
    \cup {[PlainRow EXCEPT !.HS = x, !.HST = t] : x \in RawShots, t \in RawShotsOnTarget}
    \cup {[PlainRow EXCEPT !.AS = x, !.AST = t] : x \in RawShots, t \in RawShotsOnTarget}

\* yellow cards of a side: a blank, none, one, a negative entry, one and a half
RawYellowCards == {Blank, Num(0), Num(1), Num(-1), Half(3)}

\* red cards of a side: a blank, one
RawRedCards == {Blank, Num(1)}

\* a row with no entry in any shot, foul, corner or card column
NoStatsRow ==
    [PlainRow EXCEPT !.HS = Blank, !.AS = Blank, !.HST = Blank, !.AST = Blank,
                     !.HF = Blank, !.AF = Blank, !.HC = Blank, !.AC = Blank,
                     !.HY = Blank, !.AY = Blank, !.HR = Blank, !.AR = Blank]

\* rows that differ in the cards of one side
CardRows ==
    MalformedRows \cup {NoStatsRow}
    \cup {[PlainRow EXCEPT !.HY = y, !.HR = r] : y \in RawYellowCards, r \in RawRedCards}
    \cup {[PlainRow EXCEPT !.AY = y, !.AR = r] : y \in RawYellowCards, r \in RawRedCards}

\* the stored results a raw row may carry
StoredResults == {Some("H"), Some("D"), Some("A"), NaN}

\* the three raw rows of the end-to-end scenario, with the stored results ftr
ScenarioTable(ftr) ==
    <<RawRow(Some(<<"0","1","/","0","8","/","2","4">>), Some(<<"M","a","n"," ","U","n","i","t","e","d">>),
             Some(<<"S","p","u","r","s">>), Num(2), Num(1), ftr[1],
             Some(<<"E","P","L">>)),
      RawRow(Some(<<"1","5","/","0","5","/","9","9">>), Some(<<"B","a","r","c","a">>),
             Some(<<"R","e","a","l">>), Num(1), Num(1), ftr[2],
             Some(<<"L","a","L","i","g","a">>)),
      RawRow(Some(<<"1","0","/","1","2","/","2","3">>), Some(<<"P","S","G">>),
             Some(<<"b","a","y","e","r","n">>), Num(0), Num(3), ftr[3],
             Some(<<"L","i","g","u","e","1">>))>>

\* the rows of the cleaned tables handed to the integration stage alone
IntegrateRows == {PlainRow, [PlainRow EXCEPT !.HomeTeam = TeamC, !.AwayTeam = TeamA]}

\* the result column of a dataset2_clean.csv found on disk: the three
\* letters, another letter, an empty cell
FileResults == {Some("H"), Some("A"), Some("D"), Some("X"), NaN}

\* the table with the result column ftr
with_results(table, ftr) == [i \in 1..Len(table) |-> [table[i] EXCEPT !.FTR = ftr[i]]]

\* integrated_dataset.csv and the checks of integration_report.md as an
\* earlier run left them
EarlierIntegrated == <<integrated_row(clean_row(PlainRow, MaxClockYear))>>

EarlierReport ==
    Some(report_checks(validate_integration(EarlierIntegrated,
                                            <<clean_row(PlainRow, MaxClockYear)>>)))

\* the tables of n rows
Tables(rows, n) == [1..n -> rows]

\* the teams argument: None, an empty table, a table with one team
TeamsInputs == {NaN, Some(<<>>), Some(<<[name_std |-> TeamA]>>)}

\* cleaned rows of one match with 0..MaxGoal home goals and of the return
\* match, handed to the validator together with an integrated table
ValidatorMatches ==
    {clean_dataset2(<<RawRow(Some(<<"0","1","/","0","8","/","2","4">>), TeamA, TeamC, Num(hg), Num(0), NaN, EPL)>>,
                    MaxClockYear)[1] : hg \in 0..MaxGoal}
    \cup {clean_dataset2(<<RawRow(Some(<<"0","1","/","0","8","/","2","4">>), TeamC, TeamA, Num(0), Num(0), NaN, EPL)>>,
                         MaxClockYear)[1]}

\* derived fields of an integrated row that an integrator could get wrong
DerivedFields == {"goal_differential", "total_goals", "shot_differential",
                  "home_total_cards", "home_win"}

\* an integrated row whose stored derived field f is off by one
off_by_one(row, f) ==
    IF f = "home_win" THEN [row EXCEPT !.home_win = 1 - row.home_win]
    ELSE [row EXCEPT ![f] = Some(row[f][1] + 1)]

\* base fields of an integrated row that can be null or hold a wrong letter
BaseDefects == {"home_goals", "match_date", "result"}

\* an integrated row with a defect in field f: a base field that is null
\* (an unknown letter for the result), or a derived field off by one
with_defect(row, f) ==
    IF f = "none" THEN row
    ELSE IF f = "result" THEN [row EXCEPT !.result = Some("X")]
    ELSE IF f \in BaseDefects THEN [row EXCEPT ![f] = NaN]
    ELSE off_by_one(row, f)

----------------------------------------------------------------------------
(* workflows/validate_pipeline.py: validate_files over the output tree *)

\* a file of the output tree
File(dir, stem, suffix) == [dir |-> dir, stem |-> stem, suffix |-> suffix]

reports ==
    {File("outputs/reports", stem, "md") :
        stem \in {"acquisition_report", "cleaning_report", "integration_report",
                  "data_quality_report", "analysis_report", "visualization_report"}}

\* the figure directories and the number of PNG files expected in each
viz_dirs ==
    ("outputs/figures/quality" :> 3)
    @@ ("outputs/figures/analysis" :> 3)
    @@ ("outputs/figures/comprehensive" :> 7)

models ==
    {File("outputs/models", stem, "pkl") :
        stem \in {"logistic_regression", "random_forest", "gradient_boosting", "scaler"}}

metadata_files ==
    {File("data/metadata", "checksums", "txt"),
     File("data/metadata", "team_name_mappings", "csv"),
     File("data/metadata", "acquisition_metadata", "json")}

expected_matches == 57865

expected_columns == 38

\* an entry of the errors or of the warnings list
Issue(kind, dir, stem, suffix, found) ==
    [kind |-> kind, dir |-> dir, stem |-> stem, suffix |-> suffix, found |-> found]

\* errors.append(f"Missing: {path}")
Missing(f) == Issue("Missing", f.dir, f.stem, f.suffix, 0)

\* list(Path(viz_dir).glob('*.png'))
png_files(tree, viz_dir) ==
    {f \in tree.files : f.dir = viz_dir /\ f.suffix = "png"}

\* the errors and the warnings validate_files collects over a tree: the
\* files that exist, the directories that exist, and the integrated dataset
\* (NaN when the file does not exist, else whether read_csv reads it and
\* the shape it reads)
collect_issues(tree) ==
    LET errors ==
            {Missing(f) : f \in reports \ tree.files}
            \cup {Issue("Missing directory", d, "", "", 0) :
                    d \in DOMAIN viz_dirs \ tree.dirs}
            \cup {Missing(f) : f \in models \ tree.files}
            \cup (IF isna(tree.dataset)
                  THEN {Issue("Missing", "data/processed", "integrated_dataset", "csv", 0)}
                  ELSE IF ~tree.dataset[1].readable
                  THEN {Issue("Error reading", "data/processed", "integrated_dataset", "csv", 0)}
                  ELSE {})
            \cup {Missing(f) : f \in metadata_files \ tree.files}
        warnings ==
            {Issue("files", d, "", "png", Cardinality(png_files(tree, d))) :
                d \in {d \in DOMAIN viz_dirs \cap tree.dirs :
                          Cardinality(png_files(tree, d)) # viz_dirs[d]}}
            \cup (IF notna(tree.dataset) /\ tree.dataset[1].readable
                     /\ tree.dataset[1].rows # expected_matches
                  THEN {Issue("matches", "data/processed", "integrated_dataset", "csv",
                              tree.dataset[1].rows)}
                  ELSE {})
            \cup (IF notna(tree.dataset) /\ tree.dataset[1].readable
                     /\ tree.dataset[1].columns # expected_columns
                  THEN {Issue("columns", "data/processed", "integrated_dataset", "csv",
                              tree.dataset[1].columns)}
                  ELSE {})
    IN  [errors |-> errors, warnings |-> warnings]

\* validate_files returning True on an empty errors list, whatever the warnings
validate_files_errors_only(tree) ==
    LET issues == collect_issues(tree)
    IN  [success  |-> issues.errors = {},
         errors   |-> issues.errors,
         warnings |-> issues.warnings]

\* return True when there is neither an error nor a warning
validate_files(tree) ==
    LET issues == collect_issues(tree)
    IN  [success  |-> issues.errors = {} /\ issues.warnings = {},
         errors   |-> issues.errors,
         warnings |-> issues.warnings]

(* What the six stages write *)

\* the PNG files a stage saves into its figure directory
Figures(viz_dir, stems) == {File(viz_dir, stem, "png") : stem \in stems}

\* 01_acquire.py: the checksums and the report go to data/metadata
acquire_outputs ==
    {File("data/metadata", "checksums", "txt"),
     File("data/metadata", "checksums", "json"),
     File("data/metadata", "acquisition_report", "md")}

\* 02_clean.py: the team mapping goes to data/metadata, the report to
\* data/processed
clean_outputs ==
    {File("data/processed", "dataset2_clean", "csv"),
     File("data/metadata", "team_name_mappings", "csv"),
     File("data/processed", "cleaning_report", "md")}

\* 03_integrate.py
integrate_outputs == {File("outputs/reports", "integration_report", "md")}

\* 04_quality.py: the first figure is saved only when a column has missing data
quality_outputs(any_missing) ==
    {File("outputs/reports", "data_quality_report", "md")}
    \cup Figures("outputs/figures/quality", {"completeness_over_time", "goals_distribution"})
    \cup (IF any_missing THEN Figures("outputs/figures/quality", {"completeness_by_column"}) ELSE {})

\* 05_analyze.py
analyze_outputs ==
    {File("outputs/reports", "analysis_report", "md")}
    \cup Figures("outputs/figures/analysis", {"feature_importance", "confusion_matrices", "model_comparison"})
    \cup models

\* 06_visualize.py
visualize_outputs ==
    {File("outputs/reports", "visualization_report", "md")}
    \cup Figures("outputs/figures/comprehensive",
                 {"temporal_trends", "league_comparison", "team_performance",
                  "home_advantage", "shot_efficiency", "seasonal_patterns",
                  "correlation_heatmap"})

\* the shape read_csv gives for a readable integrated dataset
Shape(rows, columns) == Some([readable |-> TRUE, rows |-> rows, columns |-> columns])

\* a file that read_csv cannot read
Unreadable == Some([readable |-> FALSE, rows |-> 0, columns |-> 0])

EmptyTree == [files |-> {}, dirs |-> {}, dataset |-> NaN]

\* the tree after a stage has written files, made directories and, for
\* the integration stage, written the dataset
written(tree, files, dirs, dataset) ==
    [files   |-> tree.files \cup files,
     dirs    |-> tree.dirs \cup dirs,
     dataset |-> IF notna(dataset) THEN dataset ELSE tree.dataset]

\* the rows and the columns an integrated dataset may have
DatasetRows == {expected_matches, 2}

DatasetColumns == {expected_columns, 37}

\* the stages of the workflow, in the order they run
Stages == 1..6

\* what stage k writes for a dataset of the expected shape with gaps in it
stage_outputs(k) ==
    IF k = 1 THEN [files |-> acquire_outputs, dirs |-> {}, dataset |-> NaN]
    ELSE IF k = 2 THEN [files |-> clean_outputs, dirs |-> {}, dataset |-> NaN]
    ELSE IF k = 3 THEN [files |-> integrate_outputs, dirs |-> {},
                        dataset |-> Shape(expected_matches, expected_columns)]
    ELSE IF k = 4 THEN [files |-> quality_outputs(TRUE),
                        dirs |-> {"outputs/figures/quality"}, dataset |-> NaN]
    ELSE IF k = 5 THEN [files |-> analyze_outputs,
                        dirs |-> {"outputs/figures/analysis"}, dataset |-> NaN]
    ELSE [files |-> visualize_outputs,
          dirs |-> {"outputs/figures/comprehensive"}, dataset |-> NaN]

\* the tree an earlier run of the stages in done has left
LeftoverTree(done) ==
    [files   |-> UNION {stage_outputs(k).files : k \in done},
     dirs    |-> UNION {stage_outputs(k).dirs : k \in done},
     dataset |-> IF 3 \in done THEN stage_outputs(3).dataset ELSE NaN]

\* most required files missing from a tree handed to validate_files
MaxMissing == 2

\* the figures validate_files expects, by directory
expected_figures(viz_dir) ==
    IF viz_dir = "outputs/figures/quality" THEN quality_outputs(TRUE) \ reports
    ELSE IF viz_dir = "outputs/figures/analysis" THEN (analyze_outputs \ reports) \ models
    ELSE visualize_outputs \ reports

\* a figure directory of a tree: not there, with every figure, one figure short
DirStates == {"absent", "complete", "short"}

figures_in(viz_dir, state) ==
    IF state = "absent" THEN {}
    ELSE IF state = "complete" THEN expected_figures(viz_dir)
    ELSE expected_figures(viz_dir) \ {CHOOSE f \in expected_figures(viz_dir) : TRUE}

\* the integrated dataset of a tree: not there, not readable, or of some shape
DatasetStates ==
    {NaN, Unreadable} \cup {Shape(r, c) : r \in DatasetRows, c \in DatasetColumns}

\* a tree with the required files but those in missing, the figure
\* directories in the given states and the given dataset
TreeWith(missing, dir_state, dataset) ==
    [files   |-> ((reports \cup models \cup metadata_files) \ missing)
                 \cup UNION {figures_in(d, dir_state[d]) : d \in DOMAIN viz_dirs},
     dirs    |-> {d \in DOMAIN viz_dirs : dir_state[d] # "absent"},
     dataset |-> dataset]

----------------------------------------------------------------------------
(* State *)

VARIABLES
    raw,            \* the table of all_leagues_all_seasons.csv
    pc,             \* the position in the two stage scripts
    current_year,   \* the latest year read from the system clock
    df_clean,       \* the table returned by clean_dataset2
    clean_csv,      \* data/processed/dataset2_clean.csv, <<>> when not written
    df_teams,       \* the teams argument of create_integrated_dataset
    df_matches,     \* the table the integration stage loaded
    df_integrated,  \* the table returned by create_integrated_dataset
    validation,     \* the result of validate_integration, NaN before it ran
    integrated_csv, \* data/processed/integrated_dataset.csv, <<>> when not written
    integration_report, \* the checks in integration_report.md, NaN when not written
    exit_code,      \* the exit status of 03_integrate.py, NaN while it runs
    run,            \* the number of the current run of the pipeline
    previous_ids,   \* the match_id column of the previous run
    name_in,        \* the argument of standardize_team_name called on its own
    std_out,        \* the results of the successive calls on it
    tree0,          \* the output tree before the first stage of the workflow
    tree,           \* the output tree: reports, figures, models, metadata, dataset
    stage,          \* the number of workflow stages that have completed
    files_result    \* what validate_files returned, NaN before it ran

vars == <<raw, pc, current_year, df_clean, clean_csv, df_teams, df_matches,
          df_integrated, validation, integrated_csv, integration_report,
          exit_code, run, previous_ids, name_in, std_out, tree0, tree, stage,
          files_result>>

workflow_vars == <<tree0, tree, stage, files_result>>

pipeline_vars == <<raw, pc, current_year, df_clean, clean_csv, df_teams,
                   df_matches, df_integrated, validation, integrated_csv,
                   integration_report, exit_code, run, previous_ids>>

\* what the integration stage has not produced yet
NothingIntegrated ==
    /\ integrated_csv = <<>>
    /\ integration_report = NaN
    /\ exit_code = NaN

\* the workflow has not started: an empty output tree, no stage, no validation
NoWorkflow ==
    /\ tree0 = EmptyTree
    /\ tree = EmptyTree
    /\ stage = 0
    /\ files_result = NaN

InitPipeline(rows, year) ==
    /\ \E n \in 1..MaxRows : raw \in Tables(rows, n)
    /\ pc = "start"
    /\ current_year = year
    /\ df_clean = <<>>
    /\ clean_csv = <<>>
    /\ df_teams = NaN
    /\ df_matches = <<>>
    /\ df_integrated = <<>>
    /\ validation = NaN
    /\ NothingIntegrated
    /\ NoWorkflow
    /\ run = 1
    /\ previous_ids = <<>>
    /\ name_in = NaN
    /\ std_out = <<>>

Init == InitPipeline(IdentityRows, 2025)

\* the outcome of a match does not depend on the clock: it shows the last year
InitOutcome == InitPipeline(OutcomeRows, MaxClockYear)

InitRerun == InitPipeline(DateRows, 2025)

InitShots == InitPipeline(ShotRows, MaxClockYear)

InitCards == InitPipeline(CardRows, MaxClockYear)

\* validate_integration on its own: it is handed the matches, with or
\* without one row more than the integrated table, and an integrated table
\* in which each row has at most one defect
InitValidator ==
    /\ \E n \in 1..MaxRows :
         \E ms \in [1..n -> ValidatorMatches] :
           \E wrong \in [1..n -> DerivedFields \cup BaseDefects \cup {"none"}] :
             \E one_more \in BOOLEAN :
               /\ df_matches = IF one_more THEN Append(ms, ms[1]) ELSE ms
               /\ df_integrated =
                    [i \in 1..n |-> with_defect(integrated_row(ms[i]), wrong[i])]
    /\ pc = "integrated"
    /\ raw = <<>>
    /\ current_year = MaxClockYear
    /\ df_clean = <<>>
    /\ clean_csv = <<>>
    /\ df_teams = NaN
    /\ validation = NaN
    /\ NothingIntegrated
    /\ NoWorkflow
    /\ run = 1
    /\ previous_ids = <<>>
    /\ name_in = NaN
    /\ std_out = <<>>

\* the end-to-end scenario: the three rows, the clock in 2025
InitScenario ==
    /\ \E ftr \in [1..3 -> StoredResults] : raw = ScenarioTable(ftr)
    /\ pc = "start"
    /\ current_year = 2025
    /\ df_clean = <<>>
    /\ clean_csv = <<>>
    /\ df_teams = NaN
    /\ df_matches = <<>>
    /\ df_integrated = <<>>
    /\ validation = NaN
    /\ NothingIntegrated
    /\ NoWorkflow
    /\ run = 1
    /\ previous_ids = <<>>
    /\ name_in = NaN
    /\ std_out = <<>>

\* 03_integrate.py on its own: dataset2_clean.csv is there, either without
\* one of the required columns or complete with any result column, and an
\* earlier run may have left its files
InitIntegrate ==
    /\ \E n \in 1..MaxRows :
         \E t \in Tables(IntegrateRows, n) :
           \E col \in required_columns \cup {"none"} :
             \E ftr \in [1..n -> FileResults] :
               /\ col # "none" => ftr = [i \in 1..n |-> Some("H")]
               /\ raw = t
               /\ df_clean = clean_dataset2(t, MaxClockYear)
               /\ clean_csv = drop_column(with_results(clean_dataset2(t, MaxClockYear), ftr),
                                          col)
    /\ \/ integrated_csv = <<>> /\ integration_report = NaN
       \/ integrated_csv = EarlierIntegrated /\ integration_report = EarlierReport
    /\ exit_code = NaN
    /\ pc = "clean_done"
    /\ current_year = MaxClockYear
    /\ df_teams = NaN
    /\ df_matches = <<>>
    /\ df_integrated = <<>>
    /\ validation = NaN
    /\ NoWorkflow
    /\ run = 1
    /\ previous_ids = <<>>
    /\ name_in = NaN
    /\ std_out = <<>>

\* the pipeline variables of a specification of the workflow alone
PipelineAtRest ==
    /\ raw = <<>>
    /\ pc = "workflow"
    /\ current_year = 2025
    /\ df_clean = <<>>
    /\ clean_csv = <<>>
    /\ df_teams = NaN
    /\ df_matches = <<>>
    /\ df_integrated = <<>>
    /\ validation = NaN
    /\ NothingIntegrated
    /\ run = 1
    /\ previous_ids = <<>>
    /\ name_in = NaN
    /\ std_out = <<>>

\* the six stages run in order over the tree an earlier run has left
InitWorkflow ==
    /\ \E done \in SUBSET Stages : tree0 = LeftoverTree(done)
    /\ tree = tree0
    /\ stage = 0
    /\ files_result = NaN
    /\ PipelineAtRest

\* validate_files on its own, over a tree with at most MaxMissing required
\* files missing
InitValidateFiles ==
    /\ \E missing \in SUBSET (reports \cup models \cup metadata_files) :
         /\ Cardinality(missing) <= MaxMissing
         /\ \E dir_state \in [DOMAIN viz_dirs -> DirStates] :
              \E dataset \in DatasetStates :
                  tree0 = TreeWith(missing, dir_state, dataset)
    /\ tree = tree0
    /\ stage = 0
    /\ files_result = NaN
    /\ PipelineAtRest

InitStd ==
    /\ \/ name_in = NaN
       \/ \E k \in 0..MaxNameLen : name_in \in InputNames(k)
    /\ std_out = <<>>
    /\ raw = <<>>
    /\ pc = "idle"
    /\ current_year = 2025
    /\ df_clean = <<>>
    /\ clean_csv = <<>>
    /\ df_teams = NaN
    /\ df_matches = <<>>
    /\ df_integrated = <<>>
    /\ validation = NaN
    /\ NothingIntegrated
    /\ NoWorkflow
    /\ run = 1
    /\ previous_ids = <<>>

----------------------------------------------------------------------------
(* 04_quality.py: assess_consistency *)

\* the result recomputed by the row lambda: a comparison with NaN is false
result_calc(home_goals, away_goals) ==
    IF gt(home_goals, away_goals) THEN "H"
    ELSE IF gt(away_goals, home_goals) THEN "A"
    ELSE "D"

\* column != column of one row: true when either side is NaN
ne(a, b) == isna(a) \/ isna(b) \/ a # b

\* a shot accuracy below 0 or above 1
out_of_bounds(accuracy) ==
    notna(accuracy) /\ (accuracy[1].num < 0 \/ accuracy[1].num > accuracy[1].den)

\* the issues assess_consistency appends; passed is set once and stays True
assess_consistency(df) ==
    LET rows == 1..Len(df)
        issues ==
            {"Result/goals mismatch" : i \in
                {i \in rows : ne(df[i].result,
                                 Some(result_calc(df[i].home_goals, df[i].away_goals)))}}
            \cup {"Goal differential inconsistent" : i \in
                {i \in rows : ne(df[i].goal_differential,
                                 sub(df[i].home_goals, df[i].away_goals))}}
            \cup {"Shot accuracy out of bounds" : i \in
                {i \in rows : out_of_bounds(df[i].home_shot_accuracy)}}
            \cup {"Total goals inconsistent" : i \in
                {i \in rows : ne(df[i].total_goals,
                                 add(df[i].home_goals, df[i].away_goals))}}
    IN  [passed |-> TRUE, issues |-> issues, total_issues |-> Cardinality(issues)]

----------------------------------------------------------------------------
(* Actions *)

\* 02_clean.py main, step 3: clean_dataset2 reads the year from the clock
CleanDataset2 ==
    /\ pc = "start"
    /\ ~astype_int_raises(raw)
    /\ \E y \in ClockYears :
         /\ y >= current_year
         /\ current_year' = y
         /\ df_clean' = clean_dataset2(raw, y)
         /\ raw' = on_copy(raw, clean_dataset2(raw, y))
    /\ pc' = "cleaned"
    /\ UNCHANGED <<clean_csv, df_teams, df_matches, df_integrated,
                   validation, integrated_csv, integration_report, exit_code,
                   run, previous_ids, name_in, std_out, workflow_vars>>

\* 02_clean.py main, step 3 with clean_dataset2 raising on a card column
CleanDataset2Raises ==
    /\ pc = "start"
    /\ astype_int_raises(raw)
    /\ pc' = "clean_raised"
    /\ UNCHANGED <<raw, current_year, df_clean, clean_csv, df_teams, df_matches,
                   df_integrated, validation, integrated_csv,
                   integration_report, exit_code, run, previous_ids, name_in,
                   std_out, workflow_vars>>

\* 02_clean.py main, steps 4 and 5: the team mapping, then the cleaned files
SaveCleaned ==
    /\ pc = "cleaned"
    /\ ~create_team_mapping_raises(df_clean)
    /\ clean_csv' = df_clean
    /\ pc' = "saved"
    /\ UNCHANGED <<raw, current_year, df_clean, df_teams, df_matches,
                   df_integrated, validation, integrated_csv,
                   integration_report, exit_code, run, previous_ids, name_in,
                   std_out, workflow_vars>>

\* 02_clean.py main, step 4 raising: the stage ends before any file is saved
CleanAborts ==
    /\ pc = "cleaned"
    /\ create_team_mapping_raises(df_clean)
    /\ pc' = "clean_aborted"
    /\ UNCHANGED <<raw, current_year, df_clean, clean_csv, df_teams, df_matches,
                   df_integrated, validation, integrated_csv,
                   integration_report, exit_code, run, previous_ids, name_in,
                   std_out, workflow_vars>>

\* 02_clean.py main, step 6: the stats and the cleaning report; main returns
CleaningReport ==
    /\ pc = "saved"
    /\ ~cleaning_report_raises(df_clean)
    /\ pc' = "clean_done"
    /\ UNCHANGED <<raw, current_year, df_clean, clean_csv, df_teams, df_matches,
                   df_integrated, validation, integrated_csv,
                   integration_report, exit_code, run, previous_ids, name_in,
                   std_out, workflow_vars>>

\* 02_clean.py main, step 6 raising: the cleaned files are there, main
\* does not return
CleaningReportRaises ==
    /\ pc = "saved"
    /\ cleaning_report_raises(df_clean)
    /\ pc' = "clean_report_raised"
    /\ UNCHANGED <<raw, current_year, df_clean, clean_csv, df_teams, df_matches,
                   df_integrated, validation, integrated_csv,
                   integration_report, exit_code, run, previous_ids, name_in,
                   std_out, workflow_vars>>

\* 03_integrate.py main, steps 1 and 2, run once dataset2_clean.csv is there
CreateIntegrated ==
    /\ pc \in {"clean_done", "clean_report_raised"}
    /\ missing_columns(clean_csv) = {}
    /\ \E t \in TeamsInputs :
         /\ df_teams' = t
         /\ df_matches' = on_copy(read_csv(clean_csv),
                                  create_integrated_dataset(read_csv(clean_csv), t))
         /\ df_integrated' = create_integrated_dataset(read_csv(clean_csv), t)
    /\ pc' = "integrated"
    /\ UNCHANGED <<raw, current_year, df_clean, clean_csv, validation,
                   integrated_csv, integration_report, exit_code, run,
                   previous_ids, name_in, std_out, workflow_vars>>

\* 03_integrate.py main, steps 1 and 2 raising KeyError on a column the
\* cleaned table does not have: nothing has been written yet
IntegrationAborts ==
    /\ pc \in {"clean_done", "clean_report_raised"}
    /\ missing_columns(clean_csv) # {}
    /\ integrated_csv' = kept_on_abort(integrated_csv)
    /\ integration_report' = kept_on_abort(integration_report)
    /\ exit_code' = Some(1)
    /\ pc' = "integration_aborted"
    /\ UNCHANGED <<raw, current_year, df_clean, clean_csv, df_teams, df_matches,
                   df_integrated, validation, run, previous_ids, name_in,
                   std_out, workflow_vars>>

\* 03_integrate.py main, step 3
ValidateIntegration ==
    /\ pc = "integrated"
    /\ validation' = Some(validate_integration(df_integrated, df_matches))
    /\ pc' = "validated"
    /\ UNCHANGED <<raw, current_year, df_clean, clean_csv, df_teams, df_matches,
                   df_integrated, integrated_csv, integration_report, exit_code,
                   run, previous_ids, name_in, std_out, workflow_vars>>

\* 03_integrate.py main, steps 4 to 6 and the exit
SaveAndReport ==
    /\ pc = "validated"
    /\ integrated_csv' = df_integrated
    /\ integration_report' = Some(report_checks(validation[1]))
    /\ exit_code' = Some(integration_exit_code(validation[1]))
    /\ pc' = "integration_done"
    /\ UNCHANGED <<raw, current_year, df_clean, clean_csv, df_teams, df_matches,
                   df_integrated, validation, run, previous_ids, name_in,
                   std_out, workflow_vars>>

\* the two stages are started again over the same raw file
Rerun ==
    /\ pc = "integration_done"
    /\ run < MaxRuns
    /\ run' = run + 1
    /\ previous_ids' = [i \in 1..Len(df_integrated) |-> df_integrated[i].match_id]
    /\ pc' = "start"
    /\ df_clean' = <<>>
    /\ df_teams' = NaN
    /\ df_matches' = <<>>
    /\ df_integrated' = <<>>
    /\ validation' = NaN
    /\ exit_code' = NaN
    /\ UNCHANGED <<raw, current_year, clean_csv, integrated_csv,
                   integration_report, name_in, std_out, workflow_vars>>

\* standardize_team_name called on the name, then on its own result
Standardize ==
    /\ pc = "idle"
    /\ Len(std_out) < 2
    /\ std_out' = Append(std_out, standardize_team_name(
                      IF std_out = <<>> THEN name_in ELSE std_out[Len(std_out)]))
    /\ UNCHANGED <<name_in, pipeline_vars, workflow_vars>>

\* stage k has completed and left its outputs in the tree
StageCompletes(k, outputs) ==
    /\ pc = "workflow"
    /\ files_result = NaN
    /\ stage = k - 1
    /\ tree' = written(tree, outputs.files, outputs.dirs, outputs.dataset)
    /\ stage' = k
    /\ UNCHANGED <<tree0, files_result, name_in, std_out, pipeline_vars>>

\* python scripts/01_acquire.py
Acquire == StageCompletes(1, stage_outputs(1))

\* python scripts/02_clean.py
Clean == StageCompletes(2, stage_outputs(2))

\* python scripts/03_integrate.py: the shape of the dataset follows the data
Integrate ==
    \E rows \in DatasetRows, columns \in DatasetColumns :
        StageCompletes(3, [stage_outputs(3) EXCEPT !.dataset = Shape(rows, columns)])

\* python scripts/04_quality.py: the data may have no missing cell at all
Quality ==
    \E any_missing \in BOOLEAN :
        StageCompletes(4, [stage_outputs(4) EXCEPT !.files = quality_outputs(any_missing)])

\* python scripts/05_analyze.py
Analyze == StageCompletes(5, stage_outputs(5))

\* python scripts/06_visualize.py
Visualize == StageCompletes(6, stage_outputs(6))

\* python workflows/validate_pipeline.py, at any point of the workflow
ValidateFiles ==
    /\ pc = "workflow"
    /\ files_result = NaN
    /\ files_result' = Some(validate_files(tree))
    /\ UNCHANGED <<tree0, tree, stage, name_in, std_out, pipeline_vars>>

Next ==
    \/ CleanDataset2
    \/ CleanDataset2Raises
    \/ SaveCleaned
    \/ CleanAborts
    \/ CleaningReport
    \/ CleaningReportRaises
    \/ CreateIntegrated
    \/ ValidateIntegration
    \/ SaveAndReport

NextRerun ==
    \/ CleanDataset2
    \/ CleanDataset2Raises
    \/ SaveCleaned
    \/ CleanAborts
    \/ CleaningReport
    \/ CleaningReportRaises
    \/ CreateIntegrated
    \/ ValidateIntegration
    \/ SaveAndReport
    \/ Rerun

\* the two stages over rows that raise nothing, run and run again
NextScenario ==
    \/ CleanDataset2
    \/ SaveCleaned
    \/ CleaningReport
    \/ CreateIntegrated
    \/ ValidateIntegration
    \/ SaveAndReport
    \/ Rerun

NextWorkflow ==
    \/ Acquire
    \/ Clean
    \/ Integrate
    \/ Quality
    \/ Analyze
    \/ Visualize
    \/ ValidateFiles

NextValidateFiles == ValidateFiles

NextIntegrate ==
    \/ CreateIntegrated
    \/ IntegrationAborts
    \/ ValidateIntegration
    \/ SaveAndReport

NextValidator ==
    \/ ValidateIntegration
    \/ SaveAndReport

NextStd == Standardize

Spec == Init /\ [][Next]_vars

SpecOutcome == InitOutcome /\ [][Next]_vars

SpecRerun == InitRerun /\ [][NextRerun]_vars

SpecShots == InitShots /\ [][Next]_vars

SpecCards == InitCards /\ [][Next]_vars

SpecValidator == InitValidator /\ [][NextValidator]_vars

SpecScenario == InitScenario /\ [][NextScenario]_vars

SpecWorkflow == InitWorkflow /\ [][NextWorkflow]_vars

SpecValidateFiles == InitValidateFiles /\ [][NextValidateFiles]_vars

SpecIntegrate == InitIntegrate /\ [][NextIntegrate]_vars

SpecStd == InitStd /\ [][NextStd]_vars

----------------------------------------------------------------------------
(* Properties *)

\* clean_dataset2 has returned in the current run
AfterCleaning ==
    pc \in {"cleaned", "saved", "clean_aborted", "clean_done", "clean_report_raised",
            "integrated", "validated", "integration_done"}

\* create_integrated_dataset has returned in the current run
AfterIntegration == pc \in {"integrated", "validated", "integration_done"}

\* C1: standardize_team_name is idempotent: for every name that is not
\* missing, standardizing the standardized name gives the standardized name.
C1_StandardizeIdempotent ==
    (notna(name_in) /\ Len(std_out) = 2) => std_out[2] = std_out[1]

\* C2: after clean_dataset2 every row whose two goal counts are present has
\* FTR 'H' when FTHG > FTAG, 'A' when FTAG > FTHG and 'D' otherwise, whatever
\* the raw row stored and whatever the other rows of the table hold.
C2_ResultFromGoals ==
    AfterCleaning =>
        \A i \in 1..Len(df_clean) :
            (notna(df_clean[i].FTHG) /\ notna(df_clean[i].FTAG)) =>
                df_clean[i].FTR =
                    IF df_clean[i].FTHG[1] > df_clean[i].FTAG[1] THEN Some("H")
                    ELSE IF df_clean[i].FTAG[1] > df_clean[i].FTHG[1] THEN Some("A")
                    ELSE Some("D")

\* a row with a wrong stored result, next to a row with a right one, has
\* been cleaned
C2_Witness ==
    /\ pc = "cleaned"
    /\ \E i, j \in 1..Len(df_clean) :
         /\ raw[i].FTHG = Num(0) /\ raw[i].FTAG = Num(1)
         /\ raw[i].FTR = Some("H") /\ df_clean[i].FTR = Some("A")
         /\ raw[j].FTHG = Num(1) /\ raw[j].FTAG = Num(0)
         /\ raw[j].FTR = Some("H") /\ df_clean[j].FTR = Some("H")

\* C3: when a goal count of a row is missing (a blank, or text coerced to
\* NaN), cleaning leaves the stored result of that row as it was, and the
\* validator of the integration stage reports a failed check for the table.
C3_NullGoalsSkipRecomputation ==
    /\ AfterCleaning =>
         \A i \in 1..Len(df_clean) :
             (isna(df_clean[i].FTHG) \/ isna(df_clean[i].FTAG)) =>
                 df_clean[i].FTR = raw[i].FTR
    /\ (pc = "validated"
        /\ \E i \in 1..Len(df_clean) :
               isna(df_clean[i].FTHG) \/ isna(df_clean[i].FTAG)) =>
         ~validation[1].all_passed

\* C4: two rows that agree on Date, HomeTeam_std, AwayTeam_std and
\* league_name get the same match_id, whatever their other columns and
\* their positions in the table.
C4_SameFieldsSameId ==
    AfterIntegration =>
        \A i, j \in 1..Len(df_integrated) :
            (/\ df_matches[i].Date = df_matches[j].Date
             /\ df_matches[i].HomeTeam_std = df_matches[j].HomeTeam_std
             /\ df_matches[i].AwayTeam_std = df_matches[j].AwayTeam_std
             /\ df_matches[i].league_name = df_matches[j].league_name) =>
                df_integrated[i].match_id = df_integrated[j].match_id

\* two rows of one match with different goals have got their identifiers
C4_Witness ==
    /\ AfterIntegration
    /\ \E i, j \in 1..Len(df_integrated) :
         /\ i # j
         /\ df_matches[i].FTHG # df_matches[j].FTHG
         /\ df_matches[i].FTR # df_matches[j].FTR
         /\ df_matches[i].Date = df_matches[j].Date
         /\ df_matches[i].HomeTeam_std = df_matches[j].HomeTeam_std
         /\ df_matches[i].AwayTeam_std = df_matches[j].AwayTeam_std
         /\ df_integrated[i].match_id = df_integrated[j].match_id

\* C5: a second run of cleaning and integration over the same raw table
\* gives every row the match_id the run before gave it, in whatever
\* calendar years the two runs take place.
C5_SameIdsOnRerun ==
    (run > 1 /\ AfterIntegration) =>
        /\ Len(df_integrated) = Len(previous_ids)
        /\ \A i \in 1..Len(df_integrated) :
               df_integrated[i].match_id = previous_ids[i]

\* C6: the digested string is unambiguous: two rows that differ in (Date,
\* HomeTeam_std, AwayTeam_std, league_name) have different match strings.
C6_MatchStringUnambiguous ==
    AfterIntegration =>
        \A i, j \in 1..Len(df_matches) :
            (<<df_matches[i].Date, df_matches[i].HomeTeam_std,
               df_matches[i].AwayTeam_std, df_matches[i].league_name>>
             # <<df_matches[j].Date, df_matches[j].HomeTeam_std,
                 df_matches[j].AwayTeam_std, df_matches[j].league_name>>) =>
                match_string(df_matches[i]) # match_string(df_matches[j])

\* C7: create_integrated_dataset returns one row per match row, in the
\* order of the match rows, with or without a teams table.
C7_OneRowPerMatch ==
    AfterIntegration =>
        /\ Len(df_integrated) = Len(df_matches)
        /\ \A i \in 1..Len(df_matches) :
               /\ i \in DOMAIN df_integrated
               /\ df_integrated[i].match_date = df_matches[i].Date
               /\ df_integrated[i].home_team_original = df_matches[i].HomeTeam
               /\ df_integrated[i].away_team_original = df_matches[i].AwayTeam
               /\ df_integrated[i].home_team = df_matches[i].HomeTeam_std
               /\ df_integrated[i].away_team = df_matches[i].AwayTeam_std

\* a table with the same match twice and a row with a missing team name,
\* integrated with an empty teams table
C7_Witness ==
    /\ AfterIntegration
    /\ df_teams = Some(<<>>)
    /\ Len(df_integrated) = 2
    /\ \/ df_matches[1] = df_matches[2]
       \/ isna(df_matches[1].HomeTeam_std)

\* C8: a date whose parsed year lies after the clock year is moved back by
\* exactly 100 years, any other date keeps its year; day and month stay; no
\* cleaned date lies after the clock year; in 2025 the two-digit year 26
\* becomes 1926 and 24 becomes 2024.
C8_CenturyResolution ==
    AfterCleaning =>
        \A i \in 1..Len(df_clean) :
            LET naive == to_datetime(raw[i].Date)
                date  == df_clean[i].Date
            IN  /\ isna(naive) <=> isna(date)
                /\ notna(date) =>
                     /\ date[1].year = IF naive[1].year > current_year
                                       THEN naive[1].year - 100
                                       ELSE naive[1].year
                     /\ date[1].month = naive[1].month
                     /\ date[1].day = naive[1].day
                     /\ date[1].year <= current_year
                /\ (current_year = 2025 /\ raw[i].Date = Some(<<"1","5","/","0","5","/","2","6">>)) =>
                     date = Some([year |-> 1926, month |-> 5, day |-> 15])
                /\ (current_year = 2025 /\ raw[i].Date = Some(<<"0","1","/","0","8","/","2","4">>)) =>
                     date = Some([year |-> 2024, month |-> 8, day |-> 1])

\* in 2025 a table with 15/05/26 and 29/02/28 has been cleaned
C8_Witness ==
    /\ pc = "cleaned"
    /\ current_year = 2025
    /\ \E i, j \in 1..Len(df_clean) :
         /\ raw[i].Date = Some(<<"1","5","/","0","5","/","2","6">>)
         /\ df_clean[i].Date = Some([year |-> 1926, month |-> 5, day |-> 15])
         /\ raw[j].Date = Some(<<"2","9","/","0","2","/","2","8">>)
         /\ df_clean[j].Date = Some([year |-> 1928, month |-> 2, day |-> 29])

\* C9: a cleaned row with a date has Season '{year-1}-{year}' when the month
\* is before August and '{year}-{year+1}' otherwise; a row without a date
\* has no Season.
C9_SeasonDerivation ==
    AfterCleaning =>
        \A i \in 1..Len(df_clean) :
            LET date == df_clean[i].Date
            IN  /\ isna(date) => isna(df_clean[i].Season)
                /\ (notna(date) /\ date[1].month < 8) =>
                     df_clean[i].Season =
                         Some(itoa(date[1].year - 1) \o <<"-">> \o itoa(date[1].year))
                /\ (notna(date) /\ date[1].month >= 8) =>
                     df_clean[i].Season =
                         Some(itoa(date[1].year) \o <<"-">> \o itoa(date[1].year + 1))

\* a row of August 2024 and a row without a date have been cleaned
C9_Witness ==
    /\ pc = "cleaned"
    /\ \E i, j \in 1..Len(df_clean) :
         /\ df_clean[i].Date = Some([year |-> 2024, month |-> 8, day |-> 1])
         /\ df_clean[i].Season = Some(<<"2","0","2","4","-","2","0","2","5">>)
         /\ isna(df_clean[j].Date)
         /\ isna(df_clean[j].Season)

\* C10: in every integrated row with both goal counts, goal_differential is
\* home_goals - away_goals and total_goals is home_goals + away_goals.
C10_GoalFields ==
    AfterIntegration =>
        \A i \in 1..Len(df_integrated) :
            LET r == df_integrated[i]
            IN  (notna(r.home_goals) /\ notna(r.away_goals)) =>
                    /\ r.goal_differential = Some(r.home_goals[1] - r.away_goals[1])
                    /\ r.total_goals = Some(r.home_goals[1] + r.away_goals[1])

\* a 0-1 row has been integrated
C10_Witness ==
    /\ AfterIntegration
    /\ \E i \in 1..Len(df_integrated) :
         /\ df_integrated[i].home_goals = Some(0)
         /\ df_integrated[i].away_goals = Some(1)
         /\ df_integrated[i].goal_differential = Some(-1)
         /\ df_integrated[i].total_goals = Some(1)

\* the shot accuracy the documentation gives for one side
documented_accuracy(shots, on_target, accuracy) ==
    /\ (notna(shots) /\ shots[1] > 0 /\ notna(on_target)) =>
           accuracy = Some([num |-> on_target[1], den |-> shots[1]])
    /\ (isna(shots) \/ shots[1] <= 0) => isna(accuracy)
    /\ notna(accuracy) => accuracy[1].den # 0

\* C11: for each side of every integrated row, the shot accuracy is the
\* shots on target divided by the shots when the shots are positive, and
\* null when the shots are zero, negative or missing; no accuracy is the
\* result of a division by zero.
C11_ShotAccuracy ==
    AfterIntegration =>
        \A i \in 1..Len(df_integrated) :
            LET r == df_integrated[i] IN
            /\ documented_accuracy(r.home_shots, r.home_shots_on_target,
                                   r.home_shot_accuracy)
            /\ documented_accuracy(r.away_shots, r.away_shots_on_target,
                                   r.away_shot_accuracy)

\* an integrated table with one side at one shot on target out of two and
\* another side with no shot and one shot on target
C11_Witness ==
    /\ AfterIntegration
    /\ \E i \in 1..Len(df_integrated) :
           /\ df_integrated[i].home_shots = Some(2)
           /\ df_integrated[i].home_shot_accuracy = Some([num |-> 1, den |-> 2])
    /\ \E i \in 1..Len(df_integrated) :
           /\ df_integrated[i].away_shots = Some(0)
           /\ df_integrated[i].away_shots_on_target = Some(1)
           /\ isna(df_integrated[i].away_shot_accuracy)

\* an accuracy between 0 and 1
in_unit_interval(accuracy) ==
    /\ accuracy.den > 0
    /\ 0 <= accuracy.num
    /\ accuracy.num <= accuracy.den

\* C12: every shot accuracy of every integrated row is null or lies
\* between 0 and 1, also for a raw row with more shots on target than shots.
C12_ShotAccuracyBounded ==
    AfterIntegration =>
        \A i \in 1..Len(df_integrated) :
            /\ notna(df_integrated[i].home_shot_accuracy) =>
                   in_unit_interval(df_integrated[i].home_shot_accuracy[1])
            /\ notna(df_integrated[i].away_shot_accuracy) =>
                   in_unit_interval(df_integrated[i].away_shot_accuracy[1])

\* C13: in every integrated row the four card counts (home and away,
\* yellow and red) are non-negative integers, whatever the raw row held,
\* negative and fractional card values included.
C13_CardsNonNegative ==
    AfterIntegration =>
        \A i \in 1..Len(df_integrated) :
            LET r == df_integrated[i] IN
            \A cards \in {r.home_yellow_cards, r.away_yellow_cards,
                          r.home_red_cards, r.away_red_cards} :
                /\ notna(cards)
                /\ cards[1] \in Nat

\* validate_integration has returned
AfterValidation == pc \in {"validated", "integration_done"}

\* a core field of the integrated row is null, the identifier apart (a
\* digest is never null)
null_core_field(r) ==
    \/ isna(r.match_date)
    \/ isna(r.home_team)
    \/ isna(r.away_team)
    \/ isna(r.home_goals)
    \/ isna(r.away_goals)
    \/ isna(r.result)
    \/ isna(r.league)
    \/ isna(r.season)

\* C14: whenever an integrated row has a null in a core field (match
\* identifier, date, home team, away team, home goals, away goals, result,
\* league, season), validate_integration reports all_passed false.
C14_NullCoreFieldFails ==
    (AfterValidation
     /\ \E i \in 1..Len(df_integrated) : null_core_field(df_integrated[i]))
        => ~validation[1].all_passed

\* two rows of the integrated table carry the same identifier
shared_match_id ==
    \E i, j \in 1..Len(df_integrated) :
        i # j /\ df_integrated[i].match_id = df_integrated[j].match_id

\* C15: when two or more integrated rows share a match identifier, the
\* no_duplicate_ids check is false, and the saved integrated table still
\* holds every one of the rows: one row per loaded match, in order, none
\* removed or merged.
C15_DuplicateIdsSurfaced ==
    /\ (AfterValidation /\ shared_match_id) => ~validation[1].no_duplicate_ids
    /\ (pc = "integration_done" /\ shared_match_id) =>
           /\ Len(integrated_csv) = Len(raw)
           /\ \A i \in 1..Len(raw) :
                  integrated_csv[i] = integrated_row(df_matches[i])

\* two rows with different home teams and one identifier have been saved
C15_Witness ==
    /\ pc = "integration_done"
    /\ Len(integrated_csv) = 2
    /\ integrated_csv[1].match_id = integrated_csv[2].match_id
    /\ integrated_csv[1].home_team # integrated_csv[2].home_team
    /\ ~validation[1].no_duplicate_ids

\* every derived field of the row is what its base fields give
derived_fields_recompute(r) ==
    /\ r.goal_differential = sub(r.home_goals, r.away_goals)
    /\ r.total_goals = add(r.home_goals, r.away_goals)
    /\ r.shot_differential = sub(r.home_shots, r.away_shots)
    /\ r.home_shot_accuracy = shot_accuracy(r.home_shots, r.home_shots_on_target)
    /\ r.away_shot_accuracy = shot_accuracy(r.away_shots, r.away_shots_on_target)
    /\ r.home_total_cards = total_cards(r.home_yellow_cards, r.home_red_cards)
    /\ r.away_total_cards = total_cards(r.away_yellow_cards, r.away_red_cards)
    /\ r.home_win = indicator(r.result, "H")
    /\ r.away_win = indicator(r.result, "A")
    /\ r.draw = indicator(r.result, "D")

\* C16: when a stored derived field of an integrated row (goal
\* differential, total goals, shot differential, shot accuracy, weighted
\* card totals, win and draw indicators) differs from the value recomputed
\* from the base fields of the row, a failed check is reported: by
\* validate_integration, or as an issue of assess_consistency on the saved
\* table.
C16_DerivedFieldsRechecked ==
    (pc = "integration_done"
     /\ \E i \in 1..Len(df_integrated) : ~derived_fields_recompute(df_integrated[i]))
        => \/ ~validation[1].all_passed
           \/ assess_consistency(integrated_csv).total_issues > 0

\* C17: whatever validate_integration returned, the stage goes on: it can
\* always save and report, and once it has, the integrated table is
\* written as built, the report holds the result of each check, and the
\* exit status is 0.
C17_ReportButContinue ==
    /\ pc = "validated" => ENABLED SaveAndReport
    /\ pc = "integration_done" =>
           /\ integrated_csv = df_integrated
           /\ Len(integrated_csv) = Len(df_matches)
           /\ integration_report = Some(report_checks(validation[1]))
           /\ integration_report[1].no_duplicate_ids = no_duplicate_ids(df_integrated)
           /\ exit_code = Some(0)

\* the stage has ended with status 0 after a validation that failed
C17_Witness ==
    /\ pc = "integration_done"
    /\ ~validation[1].all_passed
    /\ ~integration_report[1].status
    /\ integrated_csv # <<>>
    /\ exit_code = Some(0)

\* the home team, the away team or the league of the raw row is null
null_name(r) == isna(r.HomeTeam) \/ isna(r.AwayTeam) \/ isna(r.league_name)

\* a raw row with names, a date that parses, goals and no text in a card column
well_formed(r) ==
    /\ ~null_name(r)
    /\ notna(to_datetime(r.Date))
    /\ r.FTHG.kind = "number"
    /\ r.FTAG.kind = "number"
    /\ \A col \in card_cols : r[col].kind # "text"

\* exactly one row of the table has a null name, the others are well formed
one_malformed_row(table) ==
    /\ Cardinality({i \in 1..Len(table) : null_name(table[i])}) = 1
    /\ \A i \in 1..Len(table) : null_name(table[i]) \/ well_formed(table[i])

\* C18: for a raw table in which exactly one row has a null home team,
\* away team or league name and every other row is well formed, main() of
\* the cleaning stage is never cut short by an exception, and once it has
\* saved, the cleaned table holds every row.
C18_OneMalformedRowTolerated ==
    one_malformed_row(raw) =>
        /\ pc \notin {"clean_raised", "clean_aborted", "clean_report_raised"}
        /\ pc \in {"saved", "clean_done"} => Len(clean_csv) = Len(raw)

\* the numeric columns clean_dataset2 handles, the card columns included
parsed_cols ==
    {"FTHG", "FTAG", "HTHG", "HTAG", "HS", "AS", "HST", "AST",
     "HF", "AF", "HC", "AC"} \cup card_cols

\* C19: a value that does not parse, in the date column or in a numeric
\* column handled by clean_dataset2 (goals, half-time goals, shots, shots
\* on target, fouls, corners, the card columns HY, AY, HR, AR), becomes a
\* null in that cell, and clean_dataset2 returns normally.
C19_ParseErrorsDegradeToNull ==
    /\ pc # "clean_raised"
    /\ AfterCleaning =>
           \A i \in 1..Len(df_clean) :
               /\ isna(to_datetime(raw[i].Date)) => isna(df_clean[i].Date)
               /\ \A col \in parsed_cols :
                      raw[i][col].kind = "text" => isna(df_clean[i][col])

\* C20: standardize_team_name returns a null input unchanged; for a name
\* it takes n, the name lowercased, trimmed, stripped of the characters
\* other than word characters, whitespace and hyphens, with whitespace runs
\* collapsed to one space, and returns aliases[n] when n is a key of the
\* alias table and n itself otherwise: 'Psg' gives 'paris saint germain'
\* and 'P <tab>s!' gives 'p s'.
C20_StandardizeContract ==
    Len(std_out) >= 1 =>
        IF isna(name_in) THEN std_out[1] = name_in
        ELSE LET n == collapse_whitespace(remove_special(strip(lower(name_in[1]))))
             IN  /\ n \in DOMAIN aliases => std_out[1] = Some(aliases[n])
                 /\ n \notin DOMAIN aliases => std_out[1] = Some(n)
                 /\ name_in = Some(<<"P", "s", "g">>) =>
                        std_out[1] = Some(<<"p","a","r","i","s"," ","s","a","i","n","t",
                                            " ","g","e","r","m","a","i","n">>)
                 /\ name_in = Some(<<"P", " ", "\t", "s", "!">>) =>
                        std_out[1] = Some(<<"p", " ", "s">>)

\* the alias 'Psg' has been standardized
C20_Witness ==
    /\ name_in = Some(<<"P", "s", "g">>)
    /\ Len(std_out) >= 1
    /\ std_out[1] = Some(aliases[<<"p", "s", "g">>])

\* the shot, foul and corner columns and their names in the integrated table
stat_cols ==
    [HS |-> "home_shots", AS |-> "away_shots",
     HST |-> "home_shots_on_target", AST |-> "away_shots_on_target",
     HF |-> "home_fouls", AF |-> "away_fouls",
     HC |-> "home_corners", AC |-> "away_corners"]

\* the card columns and their names in the integrated table
card_names ==
    [HY |-> "home_yellow_cards", AY |-> "away_yellow_cards",
     HR |-> "home_red_cards", AR |-> "away_red_cards"]

\* C21: a missing value in a card column (HY, AY, HR, AR) is the integer 0
\* after cleaning and after integration; a missing value in a shot,
\* shots-on-target, foul or corner column is still missing after cleaning
\* and after integration.
C21_ImputationPolicy ==
    /\ AfterCleaning =>
           \A i \in 1..Len(df_clean) :
               /\ \A col \in card_cols :
                      raw[i][col].kind = "blank" => df_clean[i][col] = Some(0)
               /\ \A col \in DOMAIN stat_cols :
                      raw[i][col].kind = "blank" => isna(df_clean[i][col])
    /\ AfterIntegration =>
           \A i \in 1..Len(df_integrated) :
               /\ \A col \in card_cols :
                      raw[i][col].kind = "blank" =>
                          df_integrated[i][card_names[col]] = Some(0)
               /\ \A col \in DOMAIN stat_cols :
                      raw[i][col].kind = "blank" =>
                          isna(df_integrated[i][stat_cols[col]])

\* a row without any statistic has been integrated
C21_Witness ==
    /\ AfterIntegration
    /\ \E i \in 1..Len(df_integrated) :
           /\ raw[i] = NoStatsRow
           /\ df_integrated[i].home_red_cards = Some(0)
           /\ isna(df_integrated[i].away_fouls)
           /\ isna(df_integrated[i].home_corners)
           /\ isna(df_integrated[i].home_shots)

ScenarioCleaned ==
    <<[HomeTeam_std |-> Some(<<"m","a","n","c","h","e","s","t","e","r"," ","u","n","i","t","e","d">>),
       AwayTeam_std |-> Some(<<"t","o","t","t","e","n","h","a","m"," ","h","o","t","s","p","u","r">>),
       Season |-> Some(<<"2","0","2","4","-","2","0","2","5">>), FTR |-> Some("H")],
      [HomeTeam_std |-> Some(<<"b","a","r","c","e","l","o","n","a">>),
       AwayTeam_std |-> Some(<<"r","e","a","l"," ","m","a","d","r","i","d">>),
       Season |-> Some(<<"1","9","9","8","-","1","9","9","9">>), FTR |-> Some("D")],
      [HomeTeam_std |-> Some(<<"p","a","r","i","s"," ","s","a","i","n","t"," ","g","e","r","m","a","i","n">>),
       AwayTeam_std |-> Some(<<"b","a","y","e","r","n"," ","m","u","n","i","c","h">>),
       Season |-> Some(<<"2","0","2","3","-","2","0","2","4">>), FTR |-> Some("A")]>>

\* C23: cleaning the three scenario rows with the clock in 2025 raises
\* nothing and gives the names manchester united / tottenham hotspur,
\* barcelona / real madrid, paris saint germain / bayern munich, the
\* seasons 2024-2025, 1998-1999, 2023-2024 and the results H, D, A whatever
\* result was stored; integration gives the three rows pairwise different
\* identity strings and identifiers, and a second run gives the same ones.
C23_EndToEndScenario ==
    /\ ~astype_int_raises(raw)
    /\ AfterCleaning =>
           /\ Len(df_clean) = 3
           /\ ~create_team_mapping_raises(df_clean)
           /\ ~cleaning_report_raises(df_clean)
           /\ \A i \in 1..3 :
                  /\ df_clean[i].HomeTeam_std = ScenarioCleaned[i].HomeTeam_std
                  /\ df_clean[i].AwayTeam_std = ScenarioCleaned[i].AwayTeam_std
                  /\ df_clean[i].Season = ScenarioCleaned[i].Season
                  /\ df_clean[i].FTR = ScenarioCleaned[i].FTR
    /\ AfterIntegration =>
           /\ Len(df_integrated) = 3
           /\ \A i, j \in 1..3 :
                  i # j => /\ match_string(df_matches[i]) # match_string(df_matches[j])
                           /\ df_integrated[i].match_id # df_integrated[j].match_id
           /\ \A i \in 1..3 :
                  df_integrated[i].match_id = md5_hexdigest_16(match_string(df_matches[i]))
           /\ run > 1 =>
                  \A i \in 1..3 : df_integrated[i].match_id = previous_ids[i]

\* the second run of the scenario has integrated the three rows, the first
\* row under its expected identity string
C23_Witness ==
    /\ run = 2
    /\ AfterIntegration
    /\ Len(df_integrated) = 3
    /\ match_string(df_matches[1]) =
           <<"2","0","2","4","-","0","8","-","0","1"," ","0","0",":","0","0",":","0","0","_","m","a","n","c","h","e","s","t","e","r"," ","u","n","i","t","e","d","_","t","o","t","t","e","n","h","a","m"," ","h","o","t","s","p","u","r","_","E","P","L">>
    /\ previous_ids[1] = df_integrated[1].match_id

\* the files validate_files requires
required_files == reports \cup models \cup metadata_files

\* the integrated dataset of the tree is there, readable and of the
\* expected shape
dataset_as_expected(t) ==
    /\ notna(t.dataset)
    /\ t.dataset[1].readable
    /\ t.dataset[1].rows = expected_matches
    /\ t.dataset[1].columns = expected_columns

\* the figure directory is there and holds the expected number of PNG files
figures_as_expected(t, d) ==
    /\ d \in t.dirs
    /\ Cardinality({f \in t.files : f.dir = d /\ f.suffix = "png"}) = viz_dirs[d]

\* C24: validate_files returns success exactly when every expected report,
\* model file and metadata file exists, every figure directory exists with
\* its expected number of PNG files, and the integrated dataset exists with
\* the expected rows and columns; and whatever it finds first, it records
\* every missing file, every missing or miscounted figure directory, and
\* each defect of the dataset.
C24_ValidateFilesContract ==
    notna(files_result) =>
        LET r == files_result[1]
            recorded == r.errors \cup r.warnings
        IN  /\ r.success <=>
                   /\ required_files \subseteq tree.files
                   /\ \A d \in DOMAIN viz_dirs : figures_as_expected(tree, d)
                   /\ dataset_as_expected(tree)
            /\ \A f \in required_files \ tree.files :
                   \E e \in r.errors :
                       e.dir = f.dir /\ e.stem = f.stem /\ e.suffix = f.suffix
            /\ \A d \in DOMAIN viz_dirs :
                   ~figures_as_expected(tree, d) => \E e \in recorded : e.dir = d
            /\ ~dataset_as_expected(tree) =>
                   \E e \in recorded : e.stem = "integrated_dataset"
            /\ (notna(tree.dataset) /\ tree.dataset[1].readable) =>
                   /\ tree.dataset[1].rows # expected_matches =>
                          \E e \in r.warnings : e.kind = "matches"
                   /\ tree.dataset[1].columns # expected_columns =>
                          \E e \in r.warnings : e.kind = "columns"

\* validate_files has returned failure with two missing files, a missing
\* directory and two defects of the dataset on record
C24_Witness ==
    /\ notna(files_result)
    /\ ~files_result[1].success
    /\ Cardinality(files_result[1].errors) = 3
    /\ \E e \in files_result[1].errors : e.kind = "Missing directory"
    /\ \E e \in files_result[1].warnings : e.kind = "matches"
    /\ \E e \in files_result[1].warnings : e.kind = "columns"

\* C29: after the six stages have completed in order from an empty output
\* tree, every file validate_files requires (the six reports under
\* outputs/reports, the model files, the three metadata files) has been
\* written by some stage: validate_files records no 'Missing' error.
C29_ArtifactPathsConsistent ==
    (tree0 = EmptyTree /\ stage = 6 /\ notna(files_result)) =>
        \A e \in files_result[1].errors : e.kind # "Missing"

\* C25: validate_integration evaluates each of its five checks over the
\* whole table whatever the others give, the report shows each of them
\* separately, and all_passed is true exactly when the five are.
C25_FiveIndependentChecks ==
    /\ AfterValidation =>
           LET v == validation[1]
               rows == 1..Len(df_integrated)
           IN  /\ v.record_count_match <=> Len(df_integrated) = Len(df_matches)
               /\ v.no_duplicate_ids <=>
                      \A i, j \in rows :
                          i # j => df_integrated[i].match_id # df_integrated[j].match_id
               /\ v.no_missing_goals <=>
                      \A i \in rows : /\ df_integrated[i].home_goals # NaN
                                      /\ df_integrated[i].away_goals # NaN
               /\ v.no_missing_dates <=>
                      \A i \in rows : df_integrated[i].match_date # NaN
               /\ v.valid_results <=>
                      \A i \in rows :
                          df_integrated[i].result \in {Some("H"), Some("A"), Some("D")}
               /\ v.all_passed <=>
                      /\ v.record_count_match
                      /\ v.no_duplicate_ids
                      /\ v.no_missing_goals
                      /\ v.no_missing_dates
                      /\ v.valid_results
    /\ pc = "integration_done" =>
           LET v == validation[1]
               r == integration_report[1]
           IN  /\ r.record_count_match = v.record_count_match
               /\ r.no_duplicate_ids = v.no_duplicate_ids
               /\ r.no_missing_goals = v.no_missing_goals
               /\ r.no_missing_dates = v.no_missing_dates
               /\ r.valid_results = v.valid_results
               /\ r.status = v.all_passed

\* the report shows the record count and the results failed and the three
\* checks between them passed
C25_Witness ==
    /\ pc = "integration_done"
    /\ ~integration_report[1].record_count_match
    /\ integration_report[1].no_duplicate_ids
    /\ integration_report[1].no_missing_goals
    /\ integration_report[1].no_missing_dates
    /\ ~integration_report[1].valid_results
    /\ ~integration_report[1].status

\* C26: when the cleaned match table lacks a column the integrated schema
\* requires, the integration stage aborts before it writes
\* integrated_dataset.csv or integration_report.md: its step leaves the
\* cleaned file and the integrated dataset and report of an earlier run as
\* they were, and the stage never saves or reports afterwards.
C26_MissingColumnAbortsStage ==
    [][(pc \in {"clean_done", "clean_report_raised"} /\ missing_columns(clean_csv) # {}) =>
           /\ pc' = "integration_aborted"
           /\ clean_csv' = clean_csv
           /\ integrated_csv' = integrated_csv
           /\ integration_report' = integration_report
           /\ exit_code' # Some(0)]_vars

\* the stage has aborted on a missing column next to the files of an
\* earlier run
C26_Witness ==
    /\ pc = "integration_aborted"
    /\ "Referee" \in missing_columns(clean_csv)
    /\ integrated_csv = EarlierIntegrated
    /\ integration_report = EarlierReport

\* the card columns of one integrated row satisfy the arithmetic of the
\* weighted totals
cards_add_up(r) ==
    /\ notna(r.home_yellow_cards) /\ notna(r.home_red_cards)
    /\ notna(r.away_yellow_cards) /\ notna(r.away_red_cards)
    /\ notna(r.home_total_cards) /\ notna(r.away_total_cards)
    /\ notna(r.card_differential)
    /\ r.home_total_cards[1] = r.home_yellow_cards[1] + 2 * r.home_red_cards[1]
    /\ r.away_total_cards[1] = r.away_yellow_cards[1] + 2 * r.away_red_cards[1]
    /\ r.card_differential[1] = r.home_total_cards[1] - r.away_total_cards[1]

\* C27: in every integrated row, in memory and in integrated_dataset.csv,
\* home_total_cards is home_yellow_cards + 2 * home_red_cards,
\* away_total_cards is away_yellow_cards + 2 * away_red_cards, and
\* card_differential is home_total_cards - away_total_cards.
C27_WeightedCardTotals ==
    /\ \A i \in 1..Len(df_integrated) : cards_add_up(df_integrated[i])
    /\ \A i \in 1..Len(integrated_csv) : cards_add_up(integrated_csv[i])

\* a saved row in which the home side was shown a red card and a yellow
\* card, and the away side neither
C27_Witness ==
    /\ pc = "integration_done"
    /\ \E i \in 1..Len(integrated_csv) :
         /\ integrated_csv[i].home_red_cards = Some(1)
         /\ integrated_csv[i].home_yellow_cards = Some(1)
         /\ integrated_csv[i].home_total_cards = Some(3)
         /\ integrated_csv[i].card_differential = Some(3)

\* row by row, the integrated table carries the names of the raw table
originals_of(integrated, table) ==
    /\ Len(integrated) = Len(table)
    /\ \A i \in 1..Len(integrated) :
         /\ integrated[i].home_team_original = table[i].HomeTeam
         /\ integrated[i].away_team_original = table[i].AwayTeam

\* C28: clean_dataset2 and create_integrated_dataset leave the table they
\* are given as it was, columns and cells: the raw table is the same after
\* cleaning, the table loaded from dataset2_clean.csv is the same after
\* integration, and home_team_original and away_team_original of every
\* integrated row are the HomeTeam and AwayTeam strings of the raw row.
C28_InputsNotMutated ==
    /\ [][/\ raw' = raw
          /\ (pc # "integrated" /\ pc' = "integrated") =>
                 df_matches' = read_csv(clean_csv)]_vars
    /\ [](pc \in {"integrated", "validated", "integration_done"} =>
             originals_of(df_integrated, raw))
    /\ [](pc = "integration_done" => originals_of(integrated_csv, raw))

\* a saved row whose raw home name was rewritten by the cleaning, next to
\* the raw name it still carries
C28_Witness ==
    /\ pc = "integration_done"
    /\ \E i \in 1..Len(integrated_csv) :
         /\ raw[i].HomeTeam = Some(<<"M","a","n"," ","U","n","i","t","e","d">>)
         /\ integrated_csv[i].home_team_original = Some(<<"M","a","n"," ","U","n","i","t","e","d">>)
         /\ integrated_csv[i].home_team # integrated_csv[i].home_team_original
         /\ df_clean[i].HomeTeam_std = integrated_csv[i].home_team

\* the three indicators of one integrated row follow its result
indicators_follow_result(r) ==
    /\ r.home_win \in {0, 1} /\ r.away_win \in {0, 1} /\ r.draw \in {0, 1}
    /\ r.result = Some("H") => r.home_win = 1 /\ r.away_win = 0 /\ r.draw = 0
    /\ r.result = Some("A") => r.home_win = 0 /\ r.away_win = 1 /\ r.draw = 0
    /\ r.result = Some("D") => r.home_win = 0 /\ r.away_win = 0 /\ r.draw = 1
    /\ (r.result # Some("H") /\ r.result # Some("A") /\ r.result # Some("D")) =>
           r.home_win = 0 /\ r.away_win = 0 /\ r.draw = 0

\* C30: in every integrated row home_win, away_win and draw are 0 or 1;
\* exactly one of them is 1 when result is H, A or D (home_win for H,
\* away_win for A, draw for D), and all three are 0 when result is null or
\* any other value.
C30_OutcomeIndicators ==
    /\ \A i \in 1..Len(df_integrated) : indicators_follow_result(df_integrated[i])
    /\ pc = "integration_done" =>
           \A i \in 1..Len(integrated_csv) : indicators_follow_result(integrated_csv[i])

\* a saved table with an away win next to a row without a result
C30_Witness ==
    /\ pc = "integration_done"
    /\ \E i, j \in 1..Len(integrated_csv) :
         /\ integrated_csv[i].result = Some("A")
         /\ integrated_csv[i].away_win = 1
         /\ integrated_csv[j].result = NaN
         /\ integrated_csv[j].home_win + integrated_csv[j].away_win
              + integrated_csv[j].draw = 0
====
